---- MODULE Spec2Model ----
(***************************************************************************)
(* Phacet trigger node (n8n): webhook endpoint lifecycle                   *)
(* (checkExists / create / delete) and inbound webhook delivery handler.   *)
(*                                                                         *)
(* The repository holds two versions of the trigger:                       *)
(*   "tableId"  - src/unnamed/part_000: the table is a required parameter  *)
(*                named 'tableId'; the static data keeps the registered    *)
(*                configuration; deliveries are filtered.                  *)
(*   "phacetId" - src/nodes/Phacet/PhacetTrigger.node.ts: the table is an  *)
(*                optional parameter named 'phacetId'; the static data     *)
(*                keeps endpointId and secret only; no delivery filter.    *)
(* The version is fixed at construction (variable `variant`).              *)
(***************************************************************************)
EXTENDS Integers, Sequences, FiniteSets, TLC

\* Number of registration POSTs the remote service accepts in one behaviour.
MaxEndpoints == 2

(***************************************************************************)
(* JavaScript values.  A missing key / undefined is the value Undefined.   *)
(***************************************************************************)
Undefined == "undefined"

\* !!v for the strings and undefined the code handles
Truthy(v) == v # Undefined /\ v # ""

\* a ?? b
Coalesce(a, b) == IF a # Undefined THEN a ELSE b

Variants == {"tableId", "phacetId"}

WebhookUrls == {"https://n8n.example.com/webhook", "http://localhost:5678/webhook"}

EventTypes == {"row.created", "row.calculation.completed"}

TableIds == {"T1", "T2"}

\* What the host hands to the node: getNodeWebhookUrl('default') and the node
\* parameters 'event', 'tableId' / 'phacetId' (field table) and 'resolveData'.
\* Only the "phacetId" version declares and reads 'resolveData'; it is held at
\* TRUE in the other.
Configs(v) ==
    [webhookUrl : WebhookUrls \cup {Undefined},
     event : EventTypes \cup {""},
     table : TableIds \cup {""},
     resolveData : IF v = "phacetId" THEN BOOLEAN ELSE {TRUE}]

\* Keys of getWorkflowStaticData('node') written by either version.
StaticKeys ==
    {"webhookEndpointId", "webhookSecret", "webhookUrl", "eventType", "tableId",
     "endpointId", "secret"}

EmptyStatic == [k \in StaticKeys |-> Undefined]

\* Identifier the remote service gives to the n-th endpoint it registers.
EndpointId(n) == "ep" \o ToString(n)

\* Bodies the registration POST may answer with, for the endpoint id e:
\* {endpointId, secret?}, {id, secret?}, a body with neither identifier, or no
\* body at all (isNull).
Responses(e) ==
    [isNull : {FALSE}, endpointId : {e}, id : {Undefined}, secret : {"whsec", Undefined}]
    \cup
    [isNull : {FALSE}, endpointId : {Undefined}, id : {e, Undefined},
     secret : {"whsec", Undefined}]
    \cup
    {[isNull |-> TRUE, endpointId |-> Undefined, id |-> Undefined,
      secret |-> Undefined]}

Request(method, path, body) == [method |-> method, path |-> path, body |-> body]

\* String.replace(/http:\/\/localhost:\d+/, 'https://api.phacetlabs.com') on the
\* URLs of WebhookUrls.
ReplaceLocalhost(url) ==
    IF url = "http://localhost:5678/webhook"
    THEN "https://api.phacetlabs.com/webhook"
    ELSE url

VARIABLES
    variant,       \* which version of the trigger is installed
    config,        \* callback URL and node parameters, owned by the host
    staticData,    \* getWorkflowStaticData('node'): the local subscription
    endpoints,     \* remote service: endpoint ids registered and not deleted
    nextEndpoint,  \* remote service: index of the next endpoint id
    lastCall,      \* the most recent call and what the host observed of it
    lastHook,      \* history: the most recent of a returned create() / delete()
    run,           \* action node: installed version, parameters and item count
    nextItem,      \* action node: index i of the next input item of the loop
    returnData,    \* action node: the output records pushed so far
    status         \* action node: "idle", "running", "returned" or "raised"

vars ==
    <<variant, config, staticData, endpoints, nextEndpoint, lastCall, lastHook,
      run, nextItem, returnData, status>>

\* The variables of a run of the action node.
execVars == <<run, nextItem, returnData, status>>

\* No run of the action node has been started.
NoRun ==
    [version |-> "none", resource |-> "none", operation |-> "none",
     continueOnFail |-> FALSE, itemCount |-> 0]

\* An observation: which operation ran, what its collaborators answered
\* (input), whether it raised, its boolean return value, the HTTP requests it
\* issued in order, the records it emitted.
Call(op, input, raised, ret, requests, out) ==
    [op |-> op, input |-> input, raised |-> raised, ret |-> ret,
     requests |-> requests, out |-> out]

Init ==
    /\ variant \in Variants
    /\ config \in Configs(variant)
    /\ staticData = EmptyStatic
    /\ endpoints = {}
    /\ nextEndpoint = 1
    /\ lastCall = Call("none", <<>>, FALSE, FALSE, <<>>, <<>>)
    /\ lastHook = "none"
    /\ run = NoRun
    /\ nextItem = 0
    /\ returnData = <<>>
    /\ status = "idle"

(***************************************************************************)
(* checkExists                                                             *)
(***************************************************************************)
checkExists_tableId ==
    /\ Truthy(staticData["webhookEndpointId"])
    /\ staticData["webhookUrl"] = config.webhookUrl
    /\ staticData["eventType"] = config.event
    /\ staticData["tableId"] = config.table

checkExists_phacetId == Truthy(staticData["endpointId"])

\* The value checkExists() returns in the current state.
checkExists ==
    IF variant = "tableId" THEN checkExists_tableId ELSE checkExists_phacetId

CheckExists ==
    /\ lastCall' = Call("checkExists", <<>>, FALSE, checkExists, <<>>, <<>>)
    /\ UNCHANGED <<variant, config, staticData, endpoints, nextEndpoint, lastHook>>
    /\ UNCHANGED execVars

(***************************************************************************)
(* create                                                                  *)
(* postRaises: the registration POST raises; resp: the body it answers     *)
(* with otherwise.  The result gives what the host observes and the static *)
(* data the call leaves behind.                                            *)
(***************************************************************************)
Outcome(raised, ret, requests, data) ==
    [raised |-> raised, ret |-> ret, requests |-> requests, staticData |-> data]

\* Mutant: only response.endpointId is read, the `?? response.id` fallback is lost.
create_tableId_endpointIdOnly(postRaises, resp) ==
    LET webhookUrl == config.webhookUrl
        eventType == config.event
        tableId == config.table
        post == Request("POST", <<"webhooks", "endpoints">>,
                        <<webhookUrl, eventType, tableId>>)
    IN  IF ~Truthy(webhookUrl) \/ ~Truthy(eventType) \/ ~Truthy(tableId)
        THEN Outcome(TRUE, FALSE, <<>>, staticData)
        ELSE IF postRaises \/ resp.isNull THEN Outcome(TRUE, FALSE, <<post>>, staticData)
        ELSE Outcome(FALSE, TRUE, <<post>>,
                 [staticData EXCEPT
                    !["webhookEndpointId"] =
                        Coalesce(resp.endpointId, staticData["webhookEndpointId"]),
                    !["webhookSecret"] =
                        Coalesce(resp.secret, staticData["webhookSecret"]),
                    !["webhookUrl"] = webhookUrl,
                    !["eventType"] = eventType,
                    !["tableId"] = tableId])

\* Mutant: the configuration is written to the static data before the POST is
\* awaited, so a POST that raises leaves it behind.
create_tableId_storeBeforePost(postRaises, resp) ==
    LET webhookUrl == config.webhookUrl
        eventType == config.event
        tableId == config.table
        post == Request("POST", <<"webhooks", "endpoints">>,
                        <<webhookUrl, eventType, tableId>>)
        early == [staticData EXCEPT
                    !["webhookUrl"] = webhookUrl,
                    !["eventType"] = eventType,
                    !["tableId"] = tableId]
    IN  IF ~Truthy(webhookUrl) \/ ~Truthy(eventType) \/ ~Truthy(tableId)
        THEN Outcome(TRUE, FALSE, <<>>, staticData)
        ELSE IF postRaises \/ resp.isNull THEN Outcome(TRUE, FALSE, <<post>>, early)
        ELSE Outcome(FALSE, TRUE, <<post>>,
                 [early EXCEPT
                    !["webhookEndpointId"] =
                        Coalesce(resp.endpointId,
                                 Coalesce(resp.id, staticData["webhookEndpointId"])),
                    !["webhookSecret"] =
                        Coalesce(resp.secret, staticData["webhookSecret"])])

create_tableId(postRaises, resp) ==
    LET webhookUrl == config.webhookUrl
        eventType == config.event
        tableId == config.table
        post == Request("POST", <<"webhooks", "endpoints">>,
                        <<webhookUrl, eventType, tableId>>)
    IN  IF ~Truthy(webhookUrl) THEN Outcome(TRUE, FALSE, <<>>, staticData)
        ELSE IF ~Truthy(eventType) THEN Outcome(TRUE, FALSE, <<>>, staticData)
        ELSE IF ~Truthy(tableId) THEN Outcome(TRUE, FALSE, <<>>, staticData)
        ELSE IF postRaises THEN Outcome(TRUE, FALSE, <<post>>, staticData)
        \* response.endpointId on a missing body is a TypeError
        ELSE IF resp.isNull THEN Outcome(TRUE, FALSE, <<post>>, staticData)
        ELSE Outcome(FALSE, TRUE, <<post>>,
                 [staticData EXCEPT
                    !["webhookEndpointId"] =
                        Coalesce(resp.endpointId,
                                 Coalesce(resp.id, staticData["webhookEndpointId"])),
                    !["webhookSecret"] =
                        Coalesce(resp.secret, staticData["webhookSecret"]),
                    !["webhookUrl"] = webhookUrl,
                    !["eventType"] = eventType,
                    !["tableId"] = tableId])

\* Mutant: create() returns at once when an endpoint id is already stored.
create_phacetId_skipWhenStored(postRaises, resp) ==
    LET event == config.event
        phacetId == config.table
    IN  IF config.webhookUrl = Undefined THEN Outcome(TRUE, FALSE, <<>>, staticData)
        ELSE IF Truthy(staticData["endpointId"])
        THEN Outcome(FALSE, TRUE, <<>>, staticData)
        ELSE
          LET webhookUrl == ReplaceLocalhost(config.webhookUrl)
              post == Request("POST", <<"webhooks", "endpoints">>,
                        <<webhookUrl, event,
                          IF Truthy(phacetId) THEN phacetId ELSE Undefined>>)
          IN  IF postRaises THEN Outcome(TRUE, FALSE, <<post>>, staticData)
              ELSE IF resp.isNull THEN Outcome(TRUE, FALSE, <<post>>, staticData)
              ELSE Outcome(FALSE, TRUE, <<post>>,
                       [staticData EXCEPT
                          !["endpointId"] = resp.endpointId,
                          !["secret"] = resp.secret])

create_phacetId(postRaises, resp) ==
    LET event == config.event
        phacetId == config.table
    IN  \* undefined.replace(...) is a TypeError
        IF config.webhookUrl = Undefined THEN Outcome(TRUE, FALSE, <<>>, staticData)
        ELSE
          LET webhookUrl == ReplaceLocalhost(config.webhookUrl)
              post == Request("POST", <<"webhooks", "endpoints">>,
                        <<webhookUrl, event,
                          IF Truthy(phacetId) THEN phacetId ELSE Undefined>>)
          IN  IF postRaises THEN Outcome(TRUE, FALSE, <<post>>, staticData)
              ELSE IF resp.isNull THEN Outcome(TRUE, FALSE, <<post>>, staticData)
              ELSE Outcome(FALSE, TRUE, <<post>>,
                       [staticData EXCEPT
                          !["endpointId"] = resp.endpointId,
                          !["secret"] = resp.secret])

\* The remote service registers an endpoint whenever the POST reaches it and
\* does not raise, whatever the node does with the answer.
\* r is the outcome of create() on these answers.
Create(r, postRaises, resp) ==
    LET registered == r.requests # <<>> /\ ~postRaises
    IN  /\ registered => nextEndpoint <= MaxEndpoints
        /\ staticData' = r.staticData
        /\ endpoints' = IF registered
                        THEN endpoints \cup {EndpointId(nextEndpoint)}
                        ELSE endpoints
        /\ nextEndpoint' = IF registered THEN nextEndpoint + 1 ELSE nextEndpoint
        /\ lastCall' = Call("create", [postRaises |-> postRaises, resp |-> resp],
                         r.raised, r.ret, r.requests, <<>>)
        /\ lastHook' = IF r.raised THEN lastHook ELSE "created"
        /\ UNCHANGED <<variant, config>>
        /\ UNCHANGED execVars

Create_tableId ==
    /\ variant = "tableId"
    /\ \E postRaises \in BOOLEAN, resp \in Responses(EndpointId(nextEndpoint)) :
          Create(create_tableId(postRaises, resp), postRaises, resp)

Create_phacetId ==
    /\ variant = "phacetId"
    /\ \E postRaises \in BOOLEAN, resp \in Responses(EndpointId(nextEndpoint)) :
          Create(create_phacetId(postRaises, resp), postRaises, resp)

(***************************************************************************)
(* delete                                                                  *)
(* deleteRaises: the remote DELETE raises (it is caught).                  *)
(***************************************************************************)
\* Mutant: the static data is cleared inside the try block, after the DELETE,
\* so a DELETE that raises skips the clearing.
delete_tableId_keepOnFailure(deleteRaises) ==
    LET id == staticData["webhookEndpointId"]
        requests == IF Truthy(id)
                    THEN <<Request("DELETE", <<"webhooks", "endpoints", id>>, <<>>)>>
                    ELSE <<>>
    IN  IF Truthy(id) /\ deleteRaises
        THEN Outcome(FALSE, TRUE, requests, staticData)
        ELSE Outcome(FALSE, TRUE, requests,
                 [staticData EXCEPT
                    !["webhookEndpointId"] = Undefined,
                    !["webhookSecret"] = Undefined,
                    !["webhookUrl"] = Undefined,
                    !["eventType"] = Undefined,
                    !["tableId"] = Undefined])

delete_tableId(deleteRaises) ==
    LET id == staticData["webhookEndpointId"]
        requests == IF Truthy(id)
                    THEN <<Request("DELETE", <<"webhooks", "endpoints", id>>, <<>>)>>
                    ELSE <<>>
    IN  Outcome(FALSE, TRUE, requests,
            [staticData EXCEPT
               !["webhookEndpointId"] = Undefined,
               !["webhookSecret"] = Undefined,
               !["webhookUrl"] = Undefined,
               !["eventType"] = Undefined,
               !["tableId"] = Undefined])

\* Mutant: no try/catch around the DELETE, its failure leaves delete().
delete_phacetId_rethrow(deleteRaises) ==
    LET endpointId == staticData["endpointId"]
        requests == IF Truthy(endpointId)
                    THEN <<Request("DELETE", <<"webhooks", "endpoints", endpointId>>,
                                   <<>>)>>
                    ELSE <<>>
    IN  IF Truthy(endpointId) /\ deleteRaises
        THEN Outcome(TRUE, FALSE, requests, staticData)
        ELSE Outcome(FALSE, TRUE, requests,
                 [staticData EXCEPT
                    !["endpointId"] = Undefined,
                    !["secret"] = Undefined])

delete_phacetId(deleteRaises) ==
    LET endpointId == staticData["endpointId"]
        requests == IF Truthy(endpointId)
                    THEN <<Request("DELETE", <<"webhooks", "endpoints", endpointId>>,
                                   <<>>)>>
                    ELSE <<>>
    IN  Outcome(FALSE, TRUE, requests,
            [staticData EXCEPT
               !["endpointId"] = Undefined,
               !["secret"] = Undefined])

\* A DELETE that does not raise removes the endpoint at the remote service.
\* r is the outcome of delete() on this answer.
Delete(r, deleteRaises) ==
    LET removed == IF r.requests # <<>> /\ ~deleteRaises
                   THEN {r.requests[1].path[3]}
                   ELSE {}
    IN  /\ staticData' = r.staticData
        /\ endpoints' = endpoints \ removed
        /\ lastCall' = Call("delete", [deleteRaises |-> deleteRaises],
                         r.raised, r.ret, r.requests, <<>>)
        /\ lastHook' = IF r.raised THEN lastHook ELSE "deleted"
        /\ UNCHANGED <<variant, config, nextEndpoint>>
        /\ UNCHANGED execVars

Delete_tableId ==
    /\ variant = "tableId"
    /\ \E deleteRaises \in BOOLEAN :
          Delete(delete_tableId(deleteRaises), deleteRaises)

Delete_phacetId ==
    /\ variant = "phacetId"
    /\ \E deleteRaises \in BOOLEAN :
          Delete(delete_phacetId(deleteRaises), deleteRaises)

(***************************************************************************)
(* The host: the user edits one node parameter, or the callback URL        *)
(* changes.                                                                *)
(***************************************************************************)
Configure ==
    /\ \E field \in DOMAIN config :
          /\ config' \in Configs(variant) \ {config}
          /\ \A other \in DOMAIN config \ {field} : config'[other] = config[other]
    /\ lastCall' = Call("configure", <<>>, FALSE, FALSE, <<>>, <<>>)
    /\ UNCHANGED <<variant, staticData, endpoints, nextEndpoint, lastHook>>
    /\ UNCHANGED execVars

NextLifecycle ==
    \/ CheckExists
    \/ Create_tableId
    \/ Create_phacetId
    \/ Delete_tableId
    \/ Delete_phacetId
    \/ Configure

SpecLifecycle == Init /\ [][NextLifecycle]_vars

(***************************************************************************)
(* webhook: one inbound delivery                                           *)
(* A delivery body is {eventType, eventId, data?: {...}} and may carry     *)
(* further keys; body.top are the top-level keys, body.data the nested     *)
(* object when hasData.  A key that is absent has the value Undefined.     *)
(***************************************************************************)
PayloadKeys == {"eventType", "eventId", "tableId", "rowId", "row"}

OutputKeys == PayloadKeys \cup {"phacetId"}

NoPayload == [k \in PayloadKeys |-> Undefined]

\* Nested data objects: any of the keys may be present (a nested eventId is
\* left out: it is handled exactly as a nested eventType is).
Payloads ==
    [eventType : {"row.created", Undefined},
     eventId : {Undefined},
     tableId : TableIds \cup {Undefined},
     rowId : {"r1", Undefined},
     row : {"payloadRow", Undefined}]

\* A body with a data object has eventType and eventId at the top level and
\* either nothing else there or a table and a row of its own; without a data
\* object the body itself is the payload.
Bodies ==
    [top : [eventType : EventTypes, eventId : {"evt_1"}, tableId : {Undefined},
            rowId : {Undefined}, row : {Undefined}],
     hasData : {TRUE},
     data : Payloads]
    \cup
    [top : [eventType : EventTypes, eventId : {"evt_1"}, tableId : {"T2"},
            rowId : {"r2"}, row : {Undefined}],
     hasData : {TRUE},
     data : Payloads]
    \cup
    [top : [eventType : EventTypes, eventId : {"evt_1"},
            tableId : TableIds \cup {Undefined}, rowId : {"r1", Undefined},
            row : {"payloadRow", Undefined}],
     hasData : {FALSE},
     data : {NoPayload}]

\* What the row GET answers with when it does not raise.
FetchedRow == "fetchedRow"

\* body.data ?? body
\* Mutant: the payload is always the body itself.
EventData_bodyOnly(body) == body.top

EventData(body) == IF body.hasData THEN body.data ELSE body.top

\* { eventType: body.eventType, eventId: body.eventId, ...eventData }
BaseRecord(body) ==
    LET eventData == EventData(body)
    IN  [k \in OutputKeys |->
            IF k \in PayloadKeys /\ eventData[k] # Undefined THEN eventData[k]
            ELSE IF k \in {"eventType", "eventId"} THEN body.top[k]
            ELSE Undefined]

RowGet(tableId, rowId) == Request("GET", <<"tables", tableId, "rows", rowId>>, <<>>)

\* What the host observes of one handled delivery: whether the handler raised,
\* the requests it issued, the records of workflowData.
Delivery(requests, out) == [raised |-> FALSE, requests |-> requests, out |-> out]

Failure(requests) == [raised |-> TRUE, requests |-> requests, out |-> <<>>]

\* getRaises: the enrichment GET raises (it is caught).
\* Mutant: no try/catch around the row GET, a GET that raises fails the
\* delivery and nothing is emitted.
webhook_tableId_failOnGet(body, getRaises) ==
    LET configuredEvent == config.event
        tableId == config.table
        eventData == EventData(body)
        outputData == IF Truthy(tableId)
                      THEN [BaseRecord(body) EXCEPT !["tableId"] = tableId]
                      ELSE BaseRecord(body)
        rowId == eventData["rowId"]
    IN  IF body.top["eventType"] # configuredEvent THEN Delivery(<<>>, <<>>)
        ELSE IF Truthy(tableId) /\ Truthy(eventData["tableId"])
                /\ eventData["tableId"] # tableId
        THEN Delivery(<<>>, <<>>)
        ELSE IF Truthy(rowId) /\ Truthy(tableId)
        THEN IF getRaises THEN Failure(<<RowGet(tableId, rowId)>>)
             ELSE Delivery(<<RowGet(tableId, rowId)>>,
                           <<[outputData EXCEPT !["row"] = FetchedRow]>>)
        ELSE Delivery(<<>>, <<outputData>>)

webhook_tableId(body, getRaises) ==
    LET configuredEvent == config.event
        tableId == config.table
        eventData == EventData(body)
        outputData == IF Truthy(tableId)
                      THEN [BaseRecord(body) EXCEPT !["tableId"] = tableId]
                      ELSE BaseRecord(body)
        rowId == eventData["rowId"]
    IN  IF body.top["eventType"] # configuredEvent THEN Delivery(<<>>, <<>>)
        ELSE IF Truthy(tableId) /\ Truthy(eventData["tableId"])
                /\ eventData["tableId"] # tableId
        THEN Delivery(<<>>, <<>>)
        ELSE IF Truthy(rowId) /\ Truthy(tableId)
        THEN Delivery(<<RowGet(tableId, rowId)>>,
                      IF getRaises THEN <<outputData>>
                      ELSE <<[outputData EXCEPT !["row"] = FetchedRow]>>)
        ELSE Delivery(<<>>, <<outputData>>)

\* Mutant: outputData.row is assigned before the GET is awaited and a GET that
\* raises leaves a placeholder under the row key.
webhook_phacetId_rowPlaceholder(body, getRaises) ==
    LET phacetId == config.table
        resolveData == config.resolveData
        eventData == EventData(body)
        outputData == IF Truthy(phacetId)
                      THEN [BaseRecord(body) EXCEPT !["phacetId"] = phacetId]
                      ELSE BaseRecord(body)
        rowId == eventData["rowId"]
    IN  IF resolveData /\ Truthy(rowId) /\ Truthy(phacetId)
        THEN Delivery(<<RowGet(phacetId, rowId)>>,
                      IF getRaises THEN <<[outputData EXCEPT !["row"] = "pending"]>>
                      ELSE <<[outputData EXCEPT !["row"] = FetchedRow]>>)
        ELSE Delivery(<<>>, <<outputData>>)

\* Mutant: the resolveData switch is not consulted, the row is fetched
\* whenever a row id and a table are known.
webhook_phacetId_ignoreResolveData(body, getRaises) ==
    LET phacetId == config.table
        eventData == EventData(body)
        outputData == IF Truthy(phacetId)
                      THEN [BaseRecord(body) EXCEPT !["phacetId"] = phacetId]
                      ELSE BaseRecord(body)
        rowId == eventData["rowId"]
    IN  IF Truthy(rowId) /\ Truthy(phacetId)
        THEN Delivery(<<RowGet(phacetId, rowId)>>,
                      IF getRaises THEN <<outputData>>
                      ELSE <<[outputData EXCEPT !["row"] = FetchedRow]>>)
        ELSE Delivery(<<>>, <<outputData>>)

webhook_phacetId(body, getRaises) ==
    LET phacetId == config.table
        resolveData == config.resolveData
        eventData == EventData(body)
        outputData == IF Truthy(phacetId)
                      THEN [BaseRecord(body) EXCEPT !["phacetId"] = phacetId]
                      ELSE BaseRecord(body)
        rowId == eventData["rowId"]
    IN  IF resolveData /\ Truthy(rowId) /\ Truthy(phacetId)
        THEN Delivery(<<RowGet(phacetId, rowId)>>,
                      IF getRaises THEN <<outputData>>
                      ELSE <<[outputData EXCEPT !["row"] = FetchedRow]>>)
        ELSE Delivery(<<>>, <<outputData>>)

\* r is what the handler does with this delivery.
\* Mutant: the handler keeps the event type of the last delivery in the static
\* data of the node.
Webhook_recordDelivery(r, body, getRaises) ==
    /\ lastCall' = Call("webhook", [body |-> body, getRaises |-> getRaises],
                     r.raised, FALSE, r.requests, r.out)
    /\ staticData' = [staticData EXCEPT !["eventType"] = body.top.eventType]
    /\ UNCHANGED <<variant, config, endpoints, nextEndpoint, lastHook>>
    /\ UNCHANGED execVars

Webhook(r, body, getRaises) ==
    /\ lastCall' = Call("webhook", [body |-> body, getRaises |-> getRaises],
                     r.raised, FALSE, r.requests, r.out)
    /\ UNCHANGED <<variant, config, staticData, endpoints, nextEndpoint, lastHook>>
    /\ UNCHANGED execVars

Webhook_tableId ==
    /\ variant = "tableId"
    /\ \E body \in Bodies, getRaises \in BOOLEAN :
          Webhook(webhook_tableId(body, getRaises), body, getRaises)

Webhook_phacetId ==
    /\ variant = "phacetId"
    /\ \E body \in Bodies, getRaises \in BOOLEAN :
          Webhook(webhook_phacetId(body, getRaises), body, getRaises)

NextWebhook ==
    \/ Webhook_tableId
    \/ Webhook_phacetId
    \/ Configure

SpecWebhook == Init /\ [][NextWebhook]_vars

(***************************************************************************)
(* Action node: file upload                                                *)
(* The repository holds four versions of the action node:                  *)
(*   "v1" - src/unnamed/part_001 lines 1-454: resource 'file' uploads      *)
(*          inline in execute(); rows take text cells only.                *)
(*   "v2" - src/unnamed/part_001 lines 455-1146: uploadFile is a method;   *)
(*          row create / update / get.                                     *)
(*   "v3" - src/unnamed/part_001 lines 1148-1668: uploadFile is a helper   *)
(*          function; row create only; a file cell is uploaded or names a  *)
(*          file id.                                                       *)
(*   "v4" - src/nodes/Phacet/PhacetTrigger.node.ts lines 254-971: row      *)
(*          create / update / get / getCellDownloadUrl.                    *)
(* Text is a sequence of tokens, each standing for the bytes of its text;  *)
(* a file name is a sequence of characters, the empty sequence standing    *)
(* for both undefined and '' (the two are falsy alike).                    *)
(***************************************************************************)
Versions == {"v1", "v2", "v3", "v4"}

\* Longest binary payload, in tokens.
MaxPayload == 3

CRLF == "\r\n"

Quote == "\""

\* The boundary: `----formdata-n8n-${Math.random().toString(16)}`
Boundaries == {"----formdata-n8n-0.8a3f"}

\* Tokens a payload is made of: it may hold line breaks, dashes and the very
\* text of the boundary.
PayloadTokens == {CRLF, "--", "----formdata-n8n-0.8a3f", "%PDF"}

RECURSIVE SeqsUpTo(_, _)
\* The sequences over S of length at most n.
SeqsUpTo(S, n) ==
    IF n = 0 THEN {<<>>}
    ELSE LET shorter == SeqsUpTo(S, n - 1)
         IN  shorter \cup {Append(q, x) : q \in shorter, x \in S}

Buffers == SeqsUpTo(PayloadTokens, MaxPayload)

\* binaryData.fileName of an input file (<<>>: none).
FileNames ==
    {<<>>,
     <<"a", ".", "p", "d", "f">>,
     <<"A", ".", "P", "D", "F">>,
     <<"a", ".", "t", "x", "t">>,
     <<"a", Quote, ".", "p", "d", "f">>}

\* The parameter originalFilename (<<>>: not given).
OriginalFilenames ==
    {<<>>, <<"o", ".", "p", "d", "f">>, <<"o", ".", "t", "x", "t">>}

\* 'file.pdf'
DefaultFilename == <<"f", "i", "l", "e", ".", "p", "d", "f">>

\* a || b for file names
OrElse(a, b) == IF a # <<>> THEN a ELSE b

ToLowerCase(name) ==
    [k \in 1..Len(name) |->
        CASE name[k] = "A" -> "a"
          [] name[k] = "P" -> "p"
          [] name[k] = "D" -> "d"
          [] name[k] = "F" -> "f"
          [] OTHER -> name[k]]

\* name.endsWith(suffix)
EndsWith(name, suffix) ==
    /\ Len(name) >= Len(suffix)
    /\ SubSeq(name, Len(name) - Len(suffix) + 1, Len(name)) = suffix

\* The binary properties an input item may carry.
BinaryProperties == {"data", "attachment"}

NoFile == [present |-> FALSE, fileName |-> <<>>, id |-> Undefined, buffer |-> <<>>]

\* item.binary with the one file f under the property p.
BinaryWith(p, f) == [q \in BinaryProperties |-> IF q = p THEN f ELSE NoFile]

\* Files of an input item; id is set when the host keeps the bytes outside the
\* item.
Files ==
    [present : {TRUE}, fileName : FileNames, id : {Undefined, "filesystem:1"},
     buffer : Buffers]

\* The host has a binary property of that name for the item.
HasBinary(binary, name) == name \in BinaryProperties /\ binary[name].present

RECURSIVE Text(_)
\* The characters of a name as one string.
Text(name) == IF name = <<>> THEN "" ELSE Head(name) \o Text(Tail(name))

\* Identifier the files endpoint answers with.
UploadedId(filename) == "file:" \o Text(filename)

\* Buffer.concat(parts)
\* Mutant: the closing delimiter is written without the CRLF that ends the
\* payload.
MultipartBody_noClosingCRLF(boundary, filename, buffer) ==
    <<"--", boundary, CRLF>>
    \o <<"Content-Disposition: form-data; name=", Quote, "file", Quote,
         "; filename=", Quote>> \o filename \o <<Quote, CRLF>>
    \o <<"Content-Type: ", "application/pdf", CRLF, CRLF>>
    \o buffer
    \o <<"--", boundary, "--", CRLF>>

MultipartBody(boundary, filename, buffer) ==
    <<"--", boundary, CRLF>>
    \o <<"Content-Disposition: form-data; name=", Quote, "file", Quote,
         "; filename=", Quote>> \o filename \o <<Quote, CRLF>>
    \o <<"Content-Type: ", "application/pdf", CRLF, CRLF>>
    \o buffer
    \o <<CRLF, "--", boundary, "--", CRLF>>

\* The POST to the files endpoint of the API version api.
FilesPost(api, boundary, filename, buffer) ==
    Request("POST", <<api, "files">>,
            [contentType |-> <<"multipart/form-data; boundary=", boundary>>,
             bytes |-> MultipartBody(boundary, filename, buffer)])

\* What a caller observes of one upload: the error thrown (message "" when
\* none) and the item index it is attributed to (-1: none), the binary
\* properties whose bytes were read, the requests issued, the values returned.
Uploaded(reads, request, filename) ==
    [raised |-> FALSE, message |-> "", errorItem |-> -1, reads |-> reads,
     requests |-> <<request>>, id |-> UploadedId(filename), filename |-> filename]

UploadFailed(message, errorItem, reads, requests) ==
    [raised |-> TRUE, message |-> message, errorItem |-> errorItem,
     reads |-> reads, requests |-> requests, id |-> "", filename |-> <<>>]

\* The steps shared by the four versions: api is the API version of the files
\* endpoint, key the name the bytes are read under.  postRaises: the files
\* endpoint fails.
\* Mutant: the bytes are read before the file name is looked at.
upload_readFirst(api, key, itemIndex, binary, binaryPropertyName, originalFilename, boundary, postRaises) ==
    IF ~HasBinary(binary, binaryPropertyName)
    THEN UploadFailed("no binary data", itemIndex, <<>>, <<>>)
    ELSE LET binaryData == binary[binaryPropertyName]
             filename == OrElse(originalFilename,
                                OrElse(binaryData.fileName, DefaultFilename))
         IN  IF ~HasBinary(binary, key)
             THEN UploadFailed("no binary data", -1, <<key>>, <<>>)
             ELSE IF ~EndsWith(ToLowerCase(filename), <<".", "p", "d", "f">>)
             THEN UploadFailed("Only PDF files are supported", itemIndex, <<key>>, <<>>)
             ELSE LET request == FilesPost(api, boundary, filename, binary[key].buffer)
                  IN  IF postRaises
                      THEN UploadFailed("upload failed", -1, <<key>>, <<request>>)
                      ELSE Uploaded(<<key>>, request, filename)

upload(api, key, itemIndex, binary, binaryPropertyName, originalFilename, boundary, postRaises) ==
    IF ~HasBinary(binary, binaryPropertyName)
    THEN UploadFailed("no binary data", itemIndex, <<>>, <<>>)
    ELSE LET binaryData == binary[binaryPropertyName]
             filename == OrElse(originalFilename,
                                OrElse(binaryData.fileName, DefaultFilename))
         IN  IF ~EndsWith(ToLowerCase(filename), <<".", "p", "d", "f">>)
             THEN UploadFailed("Only PDF files are supported", itemIndex, <<>>, <<>>)
             ELSE IF ~HasBinary(binary, key)
             THEN UploadFailed("no binary data", -1, <<key>>, <<>>)
             ELSE LET request == FilesPost(api, boundary, filename, binary[key].buffer)
                  IN  IF postRaises
                      THEN UploadFailed("upload failed", -1, <<key>>, <<request>>)
                      ELSE Uploaded(<<key>>, request, filename)

\* binaryData.id || 'data'
BinaryDataId(binary, binaryPropertyName) ==
    IF HasBinary(binary, binaryPropertyName)
       /\ Truthy(binary[binaryPropertyName].id)
    THEN binary[binaryPropertyName].id
    ELSE "data"

upload_v1(itemIndex, binary, binaryProperty, originalFilename, boundary, postRaises) ==
    upload("v1", BinaryDataId(binary, binaryProperty), itemIndex, binary,
           binaryProperty, originalFilename, boundary, postRaises)

uploadFile_v2(itemIndex, binary, binaryPropertyName, originalFilename, boundary, postRaises) ==
    upload("v2", BinaryDataId(binary, binaryPropertyName), itemIndex, binary,
           binaryPropertyName, originalFilename, boundary, postRaises)

uploadFile_v3(itemIndex, binary, binaryProperty, originalFilename, boundary, postRaises) ==
    upload("v1", BinaryDataId(binary, binaryProperty), itemIndex, binary,
           binaryProperty, originalFilename, boundary, postRaises)

uploadFile_v4(itemIndex, binary, binaryPropertyName, originalFilename, boundary, postRaises) ==
    upload("v2", binaryPropertyName, itemIndex, binary, binaryPropertyName,
           originalFilename, boundary, postRaises)

\* One call of the upload of the version v.
uploadFile(v, itemIndex, binary, binaryPropertyName, originalFilename, boundary, postRaises) ==
    CASE v = "v1" -> upload_v1(itemIndex, binary, binaryPropertyName,
                               originalFilename, boundary, postRaises)
      [] v = "v2" -> uploadFile_v2(itemIndex, binary, binaryPropertyName,
                                   originalFilename, boundary, postRaises)
      [] v = "v3" -> uploadFile_v3(itemIndex, binary, binaryPropertyName,
                                   originalFilename, boundary, postRaises)
      [] v = "v4" -> uploadFile_v4(itemIndex, binary, binaryPropertyName,
                                   originalFilename, boundary, postRaises)

\* The upload is called once, for the first input item: the observation keeps
\* the arguments, the binary data of the item and what the call did.
UploadFile ==
    /\ lastCall.op = "none"
    /\ \E v \in Versions, holder \in BinaryProperties, f \in Files,
          binaryPropertyName \in BinaryProperties,
          originalFilename \in OriginalFilenames, boundary \in Boundaries,
          postRaises \in BOOLEAN :
           LET binary == BinaryWith(holder, f)
               r == uploadFile(v, 0, binary, binaryPropertyName, originalFilename,
                               boundary, postRaises)
           IN  /\ lastCall' =
                     [op |-> "uploadFile",
                      input |-> [version |-> v, binary |-> binary,
                                 binaryPropertyName |-> binaryPropertyName,
                                 originalFilename |-> originalFilename,
                                 boundary |-> boundary, postRaises |-> postRaises],
                      raised |-> r.raised, ret |-> FALSE, requests |-> r.requests,
                      out |-> r]
               /\ UNCHANGED <<variant, config, staticData, endpoints, nextEndpoint,
                              lastHook>>
               /\ UNCHANGED execVars

NextUpload == UploadFile

\* The trigger's parameters at their declared defaults.
DefaultConfig ==
    [webhookUrl |-> "https://n8n.example.com/webhook",
     event |-> "row.calculation.completed", table |-> "", resolveData |-> TRUE]

\* The trigger as it is added to a workflow, no subscription, no run of the
\* action node.
InitAction ==
    /\ Init
    /\ variant = "tableId"
    /\ config = DefaultConfig

SpecUpload == InitAction /\ [][NextUpload]_vars

(***************************************************************************)
(* Action node: execute                                                    *)
(* One step handles one input item: the body of the for loop, its          *)
(* try/catch included.  The node parameter 'phacetId' of v1-v3 and         *)
(* 'tableId' of v4 are the field tableId of an item; 'valueType' of v3 and *)
(* 'type' of v2 and v4 are the field type of a cell.                       *)
(***************************************************************************)
\* Most input items of a run.
MaxItems == 2

\* Most cells of an item.
MaxCells == 2

\* An error that carries no itemIndex, an output record without pairedItem.
NoItem == -1

\* What the form shows for one cell, the column left aside: a text cell with
\* or without a value, a file cell to upload from a binary property (a PDF,
\* none, not a PDF), a file cell that names a file id.
CellKinds ==
    {[type |-> "text", value |-> "hello", fileSource |-> Undefined,
      binaryProperty |-> Undefined, originalFilename |-> <<>>, fileId |-> Undefined],
     [type |-> "text", value |-> Undefined, fileSource |-> Undefined,
      binaryProperty |-> Undefined, originalFilename |-> <<>>, fileId |-> Undefined],
     [type |-> "file", value |-> Undefined, fileSource |-> "upload",
      binaryProperty |-> "data", originalFilename |-> <<>>, fileId |-> Undefined],
     [type |-> "file", value |-> Undefined, fileSource |-> "upload",
      binaryProperty |-> "data", originalFilename |-> <<"o", ".", "p", "d", "f">>,
      fileId |-> Undefined],
     [type |-> "file", value |-> Undefined, fileSource |-> "upload",
      binaryProperty |-> "", originalFilename |-> <<>>, fileId |-> Undefined],
     [type |-> "file", value |-> Undefined, fileSource |-> "upload",
      binaryProperty |-> "attachment", originalFilename |-> <<>>, fileId |-> Undefined],
     [type |-> "file", value |-> Undefined, fileSource |-> "fileId",
      binaryProperty |-> "", originalFilename |-> <<>>, fileId |-> "F1"]}

\* cells.cellValues: the k-th cell is for the column "col<k>".
CellLists ==
    {[k \in 1..Len(kinds) |->
         [columnId |-> "col" \o ToString(k), type |-> kinds[k].type,
          value |-> kinds[k].value, fileSource |-> kinds[k].fileSource,
          binaryProperty |-> kinds[k].binaryProperty,
          originalFilename |-> kinds[k].originalFilename,
          fileId |-> kinds[k].fileId]] : kinds \in SeqsUpTo(CellKinds, MaxCells)}

\* The binary data of every input item: a PDF under 'data', a text file under
\* 'attachment'.
ItemBinary ==
    [q \in BinaryProperties |->
        IF q = "data"
        THEN [present |-> TRUE, fileName |-> <<"a", ".", "p", "d", "f">>,
              id |-> Undefined, buffer |-> <<"%PDF">>]
        ELSE [present |-> TRUE, fileName |-> <<"a", ".", "t", "x", "t">>,
              id |-> Undefined, buffer |-> <<"--">>]]

ItemBoundary == CHOOSE b \in Boundaries : TRUE

NoParameters ==
    [tableId |-> Undefined, sessionId |-> Undefined, rowId |-> Undefined,
     cellId |-> Undefined, cells |-> <<>>, binaryProperty |-> Undefined]

\* The parameters of one input item that the operation reads.
Items(resource, operation) ==
    IF resource = "row" /\ operation = "create"
    THEN {[NoParameters EXCEPT !.tableId = t, !.sessionId = x, !.cells = c] :
             t \in {"T1", ""}, x \in {"s1", ""}, c \in CellLists}
    ELSE IF resource = "row" /\ operation = "update"
    THEN {[NoParameters EXCEPT !.tableId = t, !.rowId = x, !.cells = c] :
             t \in {"T1", ""}, x \in {"r1", ""}, c \in CellLists}
    ELSE IF resource = "row" /\ operation = "get"
    THEN {[NoParameters EXCEPT !.tableId = t, !.rowId = x] :
             t \in {"T1", ""}, x \in {"r1", ""}}
    ELSE IF resource = "row" /\ operation = "getCellDownloadUrl"
    THEN {[NoParameters EXCEPT !.tableId = t, !.cellId = x] :
             t \in {"T1", ""}, x \in {"c1", ""}}
    ELSE IF resource = "file" /\ operation = "upload"
    THEN {[NoParameters EXCEPT !.binaryProperty = b] : b \in {"data", "attachment", ""}}
    ELSE {NoParameters}

\* (resource, operation) as the parameters give them; the last is one no
\* version handles.
Operations ==
    {<<"row", "create">>, <<"row", "update">>, <<"row", "get">>,
     <<"row", "getCellDownloadUrl">>, <<"file", "upload">>, <<"row", "delete">>}

Runs ==
    {[version |-> v, resource |-> o[1], operation |-> o[2], continueOnFail |-> c,
      itemCount |-> n] :
        v \in Versions, o \in Operations, c \in BOOLEAN, n \in 1..MaxItems}

\* What the remote service answers a request with.
Response(request) == <<request.method>> \o request.path

\* The outcome of the try block for one item: the records pushed and the
\* requests issued, or the error thrown.
Done(requests, out) ==
    [failed |-> FALSE, message |-> "", errorItem |-> NoItem, requests |-> requests,
     out |-> out]

Thrown(message, errorItem, requests) ==
    [failed |-> TRUE, message |-> message, errorItem |-> errorItem,
     requests |-> requests, out |-> <<>>]

\* An output record; error is Undefined for a result, response <<>> for an
\* error.
Record(error, response, pairedItem) ==
    [json |-> [error |-> error, response |-> response], pairedItem |-> pairedItem]

\* cell.value || ''
ValueOrEmpty(v) == IF Truthy(v) THEN v ELSE ""

\* The outcome of one cell: the value for processedCells, or the error thrown.
CellDone(value, requests) ==
    [failed |-> FALSE, message |-> "", errorItem |-> NoItem, requests |-> requests,
     value |-> value]

CellThrown(message, errorItem, requests) ==
    [failed |-> TRUE, message |-> message, errorItem |-> errorItem,
     requests |-> requests, value |-> ""]

\* The outcome of an upload as the outcome of its cell.
\* Mutant: a failed upload leaves the cell without value and the loop goes on.
CellUploaded_ignoreFailure(u) ==
    IF u.raised THEN CellDone("", u.requests)
    ELSE CellDone(u.id, u.requests)

CellUploaded(u) ==
    IF u.raised THEN CellThrown(u.message, u.errorItem, u.requests)
    ELSE CellDone(u.id, u.requests)

cell_v1(itemIndex, cell, postRaises) == CellDone(ValueOrEmpty(cell.value), <<>>)

cell_v2(itemIndex, cell, postRaises) ==
    IF cell.type = "file"
    THEN CellUploaded(uploadFile_v2(itemIndex, ItemBinary, cell.binaryProperty,
                                    cell.originalFilename, ItemBoundary, postRaises))
    ELSE CellDone(ValueOrEmpty(cell.value), <<>>)

\* The outcome of an upload as the outcome of its cell in v3, whose cell loop
\* wraps the error of the upload.
CellUploaded_v3(u, itemIndex) ==
    IF u.raised
    THEN CellThrown("Failed to upload file for cell: " \o u.message, itemIndex,
                    u.requests)
    ELSE CellDone(u.id, u.requests)

cell_v3(itemIndex, cell, postRaises) ==
    IF cell.type = "file"
    THEN IF cell.fileSource = "fileId"
         THEN CellDone(ValueOrEmpty(cell.fileId), <<>>)
         ELSE CellUploaded_v3(uploadFile_v3(itemIndex, ItemBinary,
                                            cell.binaryProperty,
                                            cell.originalFilename, ItemBoundary,
                                            postRaises),
                              itemIndex)
    ELSE CellDone(ValueOrEmpty(cell.value), <<>>)

cell_v4(itemIndex, cell, postRaises) ==
    IF cell.type = "file"
    THEN IF ~Truthy(cell.binaryProperty)
         THEN CellThrown("Binary property is required for file cells", itemIndex, <<>>)
         ELSE CellUploaded(uploadFile_v4(itemIndex, ItemBinary, cell.binaryProperty,
                                         cell.originalFilename, ItemBoundary,
                                         postRaises))
    ELSE CellDone(ValueOrEmpty(cell.value), <<>>)

cellValue(v, itemIndex, cell, postRaises) ==
    CASE v = "v1" -> cell_v1(itemIndex, cell, postRaises)
      [] v = "v2" -> cell_v2(itemIndex, cell, postRaises)
      [] v = "v3" -> cell_v3(itemIndex, cell, postRaises)
      [] v = "v4" -> cell_v4(itemIndex, cell, postRaises)

RECURSIVE processCells(_, _, _, _, _, _)
RECURSIVE pushCell(_, _, _, _, _, _, _)
\* for (const cell of cells.cellValues): the cells are handled in order and
\* the first error ends the loop.  fails is the index, among the requests of
\* the item, of the one the remote service fails (0: none).
processCells(v, itemIndex, cells, fails, processedCells, requests) ==
    IF cells = <<>>
    THEN [failed |-> FALSE, message |-> "", errorItem |-> NoItem,
          requests |-> requests, processedCells |-> processedCells]
    ELSE pushCell(v, itemIndex, cells, fails, processedCells, requests,
                  cellValue(v, itemIndex, Head(cells), fails = Len(requests) + 1))

\* processedCells.push({ columnId, value }) for the outcome c of the first of
\* cells, then the rest of the loop; an error thrown for the cell ends it.
\* Mutant: the value of a cell is put in front of the values collected so
\* far.
pushCell_unshift(v, itemIndex, cells, fails, processedCells, requests, c) ==
    IF c.failed
    THEN [failed |-> TRUE, message |-> c.message, errorItem |-> c.errorItem,
          requests |-> requests \o c.requests, processedCells |-> processedCells]
    ELSE processCells(v, itemIndex, Tail(cells), fails,
                      <<[columnId |-> Head(cells).columnId, value |-> c.value]>>
                         \o processedCells,
                      requests \o c.requests)

pushCell(v, itemIndex, cells, fails, processedCells, requests, c) ==
    IF c.failed
    THEN [failed |-> TRUE, message |-> c.message, errorItem |-> c.errorItem,
          requests |-> requests \o c.requests, processedCells |-> processedCells]
    ELSE processCells(v, itemIndex, Tail(cells), fails,
                      Append(processedCells,
                             [columnId |-> Head(cells).columnId, value |-> c.value]),
                      requests \o c.requests)

\* One awaited request after the requests issued so far, and the record pushed
\* for its answer.
Send(request, itemIndex, fails, requests) ==
    IF fails = Len(requests) + 1
    THEN Thrown("request failed", NoItem, Append(requests, request))
    ELSE Done(Append(requests, request),
              <<Record(Undefined, Response(request), itemIndex)>>)

\* The cells are processed, then the row is written.
SendRow(p, method, path, fields, itemIndex, fails) ==
    IF p.failed THEN Thrown(p.message, p.errorItem, p.requests)
    ELSE Send(Request(method, path, [fields EXCEPT !.cells = p.processedCells]),
              itemIndex, fails, p.requests)

WriteRow(v, method, path, fields, itemIndex, item, fails) ==
    SendRow(processCells(v, itemIndex, item.cells, fails, <<>>, <<>>),
            method, path, fields, itemIndex, fails)

\* The record pushed for the outcome u of the upload of the file operation.
FileUploaded(u, itemIndex) ==
    IF u.raised THEN Thrown(u.message, u.errorItem, u.requests)
    ELSE Done(u.requests, <<Record(Undefined, <<u.id, Text(u.filename)>>, itemIndex)>>)

\* The try block of v1 (src/unnamed/part_001 lines 311-439).
tryItem_v1(resource, operation, itemIndex, item, fails) ==
    IF resource = "file" /\ operation = "upload"
    THEN FileUploaded(upload_v1(itemIndex, ItemBinary, item.binaryProperty, <<>>,
                                ItemBoundary, fails = 1),
                      itemIndex)
    ELSE IF resource = "row" /\ operation = "create"
    THEN IF ~Truthy(item.tableId)
         THEN Thrown("Phacet ID is required", itemIndex, <<>>)
         ELSE IF ~Truthy(item.sessionId)
         THEN Thrown("Session ID is required", itemIndex, <<>>)
         ELSE IF item.cells = <<>>
         THEN Thrown("At least one cell is required", itemIndex, <<>>)
         ELSE WriteRow("v1", "POST", <<"v1", "phacets", item.tableId, "rows">>,
                       [sessionId |-> item.sessionId, cells |-> <<>>],
                       itemIndex, item, fails)
    ELSE Done(<<>>, <<>>)

\* The try block of v2 (src/unnamed/part_001 lines 971-1133).
tryItem_v2(resource, operation, itemIndex, item, fails) ==
    IF resource = "row" /\ operation = "create"
    THEN IF ~Truthy(item.tableId)
         THEN Thrown("Phacet ID is required", itemIndex, <<>>)
         ELSE IF ~Truthy(item.sessionId)
         THEN Thrown("Session ID is required", itemIndex, <<>>)
         ELSE IF item.cells = <<>>
         THEN Thrown("At least one cell is required", itemIndex, <<>>)
         ELSE WriteRow("v2", "POST", <<"v1", "phacets", item.tableId, "rows">>,
                       [sessionId |-> item.sessionId, cells |-> <<>>],
                       itemIndex, item, fails)
    ELSE IF resource = "row" /\ operation = "update"
    THEN IF ~Truthy(item.tableId)
         THEN Thrown("Phacet ID is required", itemIndex, <<>>)
         ELSE IF ~Truthy(item.rowId)
         THEN Thrown("Row ID is required", itemIndex, <<>>)
         ELSE IF item.cells = <<>>
         THEN Thrown("At least one cell is required", itemIndex, <<>>)
         ELSE WriteRow("v2", "PUT",
                       <<"v2", "tables", item.tableId, "rows", item.rowId>>,
                       [cells |-> <<>>], itemIndex, item, fails)
    ELSE IF resource = "row" /\ operation = "get"
    THEN IF ~Truthy(item.tableId)
         THEN Thrown("Phacet ID is required", itemIndex, <<>>)
         ELSE IF ~Truthy(item.rowId)
         THEN Thrown("Row ID is required", itemIndex, <<>>)
         ELSE Send(Request("GET", <<"v2", "tables", item.tableId, "rows", item.rowId>>,
                           <<>>),
                   itemIndex, fails, <<>>)
    ELSE Done(<<>>, <<>>)

\* The try block of v3 (src/unnamed/part_001 lines 1567-1653).
\* Mutant: an operation the node does not know is an error.
tryItem_v3_throwOnUnknown(resource, operation, itemIndex, item, fails) ==
    IF resource = "row" /\ operation = "create"
    THEN IF ~Truthy(item.tableId)
         THEN Thrown("Phacet ID is required", itemIndex, <<>>)
         ELSE IF ~Truthy(item.sessionId)
         THEN Thrown("Session ID is required", itemIndex, <<>>)
         ELSE IF item.cells = <<>>
         THEN Thrown("At least one cell is required", itemIndex, <<>>)
         ELSE WriteRow("v3", "POST", <<"v1", "phacets", item.tableId, "rows">>,
                       [sessionId |-> item.sessionId, cells |-> <<>>],
                       itemIndex, item, fails)
    ELSE Thrown("The operation is not supported", itemIndex, <<>>)

tryItem_v3(resource, operation, itemIndex, item, fails) ==
    IF resource = "row" /\ operation = "create"
    THEN IF ~Truthy(item.tableId)
         THEN Thrown("Phacet ID is required", itemIndex, <<>>)
         ELSE IF ~Truthy(item.sessionId)
         THEN Thrown("Session ID is required", itemIndex, <<>>)
         ELSE IF item.cells = <<>>
         THEN Thrown("At least one cell is required", itemIndex, <<>>)
         ELSE WriteRow("v3", "POST", <<"v1", "phacets", item.tableId, "rows">>,
                       [sessionId |-> item.sessionId, cells |-> <<>>],
                       itemIndex, item, fails)
    ELSE Done(<<>>, <<>>)

\* Mutant: the session id is looked at only after the cells are processed.
tryItem_v4_lateSessionCheck(resource, operation, itemIndex, item, fails) ==
    IF resource = "row" /\ operation = "create"
    THEN IF ~Truthy(item.tableId)
         THEN Thrown("Table ID is required", itemIndex, <<>>)
         ELSE IF item.cells = <<>>
         THEN Thrown("At least one cell is required", itemIndex, <<>>)
         ELSE LET p == processCells("v4", itemIndex, item.cells, fails, <<>>, <<>>)
              IN  IF p.failed THEN Thrown(p.message, p.errorItem, p.requests)
                  ELSE IF ~Truthy(item.sessionId)
                  THEN Thrown("Session ID is required", itemIndex, p.requests)
                  ELSE Send(Request("POST", <<"v2", "tables", item.tableId, "rows">>,
                                    [sessionId |-> item.sessionId,
                                     cells |-> p.processedCells]),
                            itemIndex, fails, p.requests)
    ELSE Done(<<>>, <<>>)

\* The try block of v4 (src/nodes/Phacet/PhacetTrigger.node.ts lines 754-958).
tryItem_v4(resource, operation, itemIndex, item, fails) ==
    IF resource = "row" /\ operation = "create"
    THEN IF ~Truthy(item.tableId)
         THEN Thrown("Table ID is required", itemIndex, <<>>)
         ELSE IF ~Truthy(item.sessionId)
         THEN Thrown("Session ID is required", itemIndex, <<>>)
         ELSE IF item.cells = <<>>
         THEN Thrown("At least one cell is required", itemIndex, <<>>)
         ELSE WriteRow("v4", "POST", <<"v2", "tables", item.tableId, "rows">>,
                       [sessionId |-> item.sessionId, cells |-> <<>>],
                       itemIndex, item, fails)
    ELSE IF resource = "row" /\ operation = "update"
    THEN IF ~Truthy(item.tableId)
         THEN Thrown("Table ID is required", itemIndex, <<>>)
         ELSE IF ~Truthy(item.rowId)
         THEN Thrown("Row ID is required", itemIndex, <<>>)
         ELSE IF item.cells = <<>>
         THEN Thrown("At least one cell is required", itemIndex, <<>>)
         ELSE WriteRow("v4", "PUT",
                       <<"v2", "tables", item.tableId, "rows", item.rowId>>,
                       [cells |-> <<>>], itemIndex, item, fails)
    ELSE IF resource = "row" /\ operation = "getCellDownloadUrl"
    THEN IF ~Truthy(item.tableId)
         THEN Thrown("Table ID is required", itemIndex, <<>>)
         ELSE IF ~Truthy(item.cellId)
         THEN Thrown("Cell ID is required", itemIndex, <<>>)
         ELSE Send(Request("GET", <<"v2", "tables", item.tableId, "cells",
                                    item.cellId, "download-file-url">>, <<>>),
                   itemIndex, fails, <<>>)
    ELSE IF resource = "row" /\ operation = "get"
    THEN IF ~Truthy(item.tableId)
         THEN Thrown("Table ID is required", itemIndex, <<>>)
         ELSE IF ~Truthy(item.rowId)
         THEN Thrown("Row ID is required", itemIndex, <<>>)
         ELSE Send(Request("GET", <<"v2", "tables", item.tableId, "rows", item.rowId>>,
                           <<>>),
                   itemIndex, fails, <<>>)
    ELSE Done(<<>>, <<>>)

tryItem(v, resource, operation, itemIndex, item, fails) ==
    CASE v = "v1" -> tryItem_v1(resource, operation, itemIndex, item, fails)
      [] v = "v2" -> tryItem_v2(resource, operation, itemIndex, item, fails)
      [] v = "v3" -> tryItem_v3(resource, operation, itemIndex, item, fails)
      [] v = "v4" -> tryItem_v4(resource, operation, itemIndex, item, fails)

\* v1 and v3 pair the error record with its item, v2 and v4 do not.
ErrorPairedItem(v, itemIndex) == IF v \in {"v1", "v3"} THEN itemIndex ELSE NoItem

\* catch (error): with continueOnFail() the error becomes a record and the
\* loop goes on, without it the error is thrown to the caller.  t is the
\* outcome of the try block for the item.
\* Mutant: the catch block continues without pushing a record.
catchError_dropRecord(v, t, continueOnFail, itemIndex) ==
    [raised |-> t.failed /\ ~continueOnFail, failed |-> t.failed,
     message |-> t.message, errorItem |-> t.errorItem, requests |-> t.requests,
     out |-> t.out]

catchError(v, t, continueOnFail, itemIndex) ==
    [raised |-> t.failed /\ ~continueOnFail, failed |-> t.failed,
     message |-> t.message, errorItem |-> t.errorItem, requests |-> t.requests,
     out |-> IF t.failed /\ continueOnFail
             THEN <<Record(t.message, <<>>, ErrorPairedItem(v, itemIndex))>>
             ELSE t.out]

\* One iteration of the loop of execute() for the item i = nextItem; the run
\* ends with the last item or with the first error thrown to the caller.
\* r is the outcome of the try and catch blocks for the item.
\* Mutant: the records of an item are put in front of those of the earlier
\* items.
ExecuteItem_unshift(r, item, fails) ==
    /\ fails <= Len(r.requests)
    /\ lastCall' =
          [op |-> "execute",
           input |-> [item |-> item, fails |-> fails, index |-> nextItem],
           raised |-> r.raised, ret |-> FALSE, requests |-> r.requests,
           out |-> r.out,
           error |-> [failed |-> r.failed, message |-> r.message,
                      errorItem |-> r.errorItem]]
    /\ returnData' = r.out \o returnData
    /\ nextItem' = IF r.raised THEN nextItem ELSE nextItem + 1
    /\ status' = IF r.raised THEN "raised"
                 ELSE IF nextItem + 1 = run.itemCount THEN "returned"
                 ELSE "running"
    /\ UNCHANGED <<variant, config, staticData, endpoints, nextEndpoint, lastHook, run>>

ExecuteItem(r, item, fails) ==
    /\ fails <= Len(r.requests)
    /\ lastCall' =
          [op |-> "execute",
           input |-> [item |-> item, fails |-> fails, index |-> nextItem],
           raised |-> r.raised, ret |-> FALSE, requests |-> r.requests,
           out |-> r.out,
           error |-> [failed |-> r.failed, message |-> r.message,
                      errorItem |-> r.errorItem]]
    /\ returnData' = returnData \o r.out
    /\ nextItem' = IF r.raised THEN nextItem ELSE nextItem + 1
    /\ status' = IF r.raised THEN "raised"
                 ELSE IF nextItem + 1 = run.itemCount THEN "returned"
                 ELSE "running"
    /\ UNCHANGED <<variant, config, staticData, endpoints, nextEndpoint, lastHook, run>>

Execute ==
    /\ status = "running"
    /\ \E item \in Items(run.resource, run.operation), fails \in 0..(MaxCells + 1) :
          ExecuteItem(catchError(run.version,
                                 tryItem(run.version, run.resource, run.operation,
                                         nextItem, item, fails),
                                 run.continueOnFail, nextItem),
                      item, fails)

NextExecute == Execute

\* execute() is called with itemCount input items.
InitExecute ==
    /\ variant = "tableId"
    /\ config = DefaultConfig
    /\ staticData = EmptyStatic
    /\ endpoints = {}
    /\ nextEndpoint = 1
    /\ lastCall = Call("none", <<>>, FALSE, FALSE, <<>>, <<>>)
    /\ lastHook = "none"
    /\ run \in Runs
    /\ nextItem = 0
    /\ returnData = <<>>
    /\ status = "running"

SpecExecute == InitExecute /\ [][NextExecute]_vars

(***************************************************************************)
(* The trigger node of src/unnamed/part_000 and the action node in one      *)
(* workflow: the hooks, the webhook deliveries and the items of one run of *)
(* execute, interleaved in any order under one fixed configuration.  A     *)
(* delivery is one step: the handler keeps everything it computes in local *)
(* variables.                                                              *)
(***************************************************************************)
FrameConfig ==
    [webhookUrl |-> "https://n8n.example.com/webhook",
     event |-> "row.created", table |-> "T1", resolveData |-> TRUE]

FrameRun ==
    [version |-> "v4", resource |-> "row", operation |-> "get",
     continueOnFail |-> TRUE, itemCount |-> 1]

InitFrame ==
    /\ variant = "tableId"
    /\ config = FrameConfig
    /\ staticData = EmptyStatic
    /\ endpoints = {}
    /\ nextEndpoint = 1
    /\ lastCall = Call("none", <<>>, FALSE, FALSE, <<>>, <<>>)
    /\ lastHook = "none"
    /\ run = FrameRun
    /\ nextItem = 0
    /\ returnData = <<>>
    /\ status = "running"

NextFrame ==
    \/ CheckExists
    \/ Create_tableId
    \/ Delete_tableId
    \/ Webhook_tableId
    \/ Execute

SpecFrame == InitFrame /\ [][NextFrame]_vars

(***************************************************************************)
(* The hooks as the host calls them: on activation checkExists() and, when *)
(* it returns false, create(); on deactivation delete().  Every remote     *)
(* call succeeds and the registration answers with a fresh endpoint id.    *)
(***************************************************************************)
FreshResponse ==
    [isNull |-> FALSE, endpointId |-> EndpointId(nextEndpoint), id |-> Undefined,
     secret |-> "whsec"]

Activate_exists ==
    /\ checkExists
    /\ CheckExists

Activate_tableId ==
    /\ variant = "tableId"
    /\ ~checkExists
    /\ Create(create_tableId(FALSE, FreshResponse), FALSE, FreshResponse)

Activate_phacetId ==
    /\ variant = "phacetId"
    /\ ~checkExists
    /\ Create(create_phacetId(FALSE, FreshResponse), FALSE, FreshResponse)

Deactivate_tableId ==
    /\ variant = "tableId"
    /\ Delete(delete_tableId(FALSE), FALSE)

Deactivate_phacetId ==
    /\ variant = "phacetId"
    /\ Delete(delete_phacetId(FALSE), FALSE)

NextProtocol ==
    \/ Activate_exists
    \/ Activate_tableId
    \/ Activate_phacetId
    \/ Deactivate_tableId
    \/ Deactivate_phacetId
    \/ Configure

SpecProtocol == Init /\ [][NextProtocol]_vars

Next ==
    \/ NextLifecycle
    \/ NextWebhook
    \/ NextUpload
    \/ NextExecute

Spec == Init /\ [][Next]_vars

(***************************************************************************)
(* Properties of the endpoint lifecycle (checked under SpecLifecycle)      *)
(***************************************************************************)
\* The endpoint id of the local subscription, under the key the installed
\* version uses.
StoredEndpointId ==
    IF variant = "tableId" THEN staticData["webhookEndpointId"]
    ELSE staticData["endpointId"]

\* C1: checkExists() returns true if and only if the local subscription has an
\* endpoint id and its stored callback URL, event type and table equal the
\* configured ones (so changing one configured value makes it return false).
C1_CheckExistsIffStoredMatchesConfig ==
    checkExists <=>
        /\ Truthy(StoredEndpointId)
        /\ staticData["webhookUrl"] = config.webhookUrl
        /\ staticData["eventType"] = config.event
        /\ staticData["tableId"] = config.table

\* C2: once delete() has been called, checkExists() returns false until a
\* create() returns successfully, whatever the remote DELETE did.
C2_CheckExistsFalseAfterDelete ==
    lastHook = "deleted" => ~checkExists

\* C2 witness: delete() was called and the create() that followed it failed.
C2_Witness ==
    /\ lastHook = "deleted"
    /\ lastCall.op = "create"
    /\ lastCall.raised
    /\ lastCall.requests # <<>>

C4_DeleteBestEffort ==
    [][ lastCall'.op = "delete" =>
          /\ ~lastCall'.raised
          /\ lastCall'.ret
          /\ lastCall'.requests # <<>> =>
                /\ Truthy(StoredEndpointId)
                /\ lastCall'.requests =
                     <<Request("DELETE", <<"webhooks", "endpoints", StoredEndpointId>>,
                               <<>>)>>
          /\ staticData' = EmptyStatic ]_vars

\* C4 witness: a delete() whose remote DELETE raised.
C4_Witness ==
    /\ lastCall.op = "delete"
    /\ lastCall.requests # <<>>
    /\ lastCall.input.deleteRaises
    /\ lastCall.ret
    /\ staticData = EmptyStatic

\* C5: a create() that fails leaves the local subscription as it was, and a
\* registration POST that raises makes create() fail; a failed create() on an
\* empty subscription leaves checkExists() false.
C5_FailedCreateKeepsSubscription ==
    [][ lastCall'.op = "create" =>
          /\ lastCall'.raised =>
                /\ staticData' = staticData
                /\ ~lastCall'.ret
                /\ staticData = EmptyStatic => ~checkExists'
          /\ (lastCall'.requests # <<>> /\ lastCall'.input.postRaises) =>
                lastCall'.raised ]_vars

\* C5 witness: a create() failed on its POST while a subscription was stored.
C5_Witness ==
    /\ lastCall.op = "create"
    /\ lastCall.raised
    /\ lastCall.requests # <<>>
    /\ lastCall.input.postRaises
    /\ Truthy(StoredEndpointId)

\* C6: create() raises without issuing any request when the host gives no
\* callback URL, when the configured event is empty, or, where the table is
\* required, when the configured table id is empty.
C6_CreateValidatesBeforePost ==
    ( /\ lastCall.op = "create"
      /\ \/ ~Truthy(config.webhookUrl)
         \/ ~Truthy(config.event)
         \/ variant = "tableId" /\ ~Truthy(config.table) )
    => (lastCall.raised /\ lastCall.requests = <<>>)

(***************************************************************************)
(* Properties of the delivery handler (checked under SpecWebhook)          *)
(***************************************************************************)
\* The delivery the last call handled, and its effective payload.
DeliveredBody == lastCall.input.body

DeliveredPayload == EventData(DeliveredBody)

\* The delivery carries the configured event type.
PassesEventFilter == DeliveredBody.top["eventType"] = config.event

\* A table is configured and the payload names another one.
OtherTable ==
    /\ Truthy(config.table)
    /\ Truthy(DeliveredPayload["tableId"])
    /\ DeliveredPayload["tableId"] # config.table

\* C7: a delivery whose eventType differs from the configured event emits no
\* record and issues no HTTP request.
C7_OtherEventDropped ==
    (lastCall.op = "webhook" /\ ~PassesEventFilter)
    => (lastCall.out = <<>> /\ lastCall.requests = <<>>)

\* C8: for a delivery of the configured event type and a configured table, a
\* payload naming another table emits no record and a payload naming the
\* configured table emits one record.
C8_TableFilter ==
    (lastCall.op = "webhook" /\ PassesEventFilter /\ Truthy(config.table)
       /\ Truthy(DeliveredPayload["tableId"]))
    => IF DeliveredPayload["tableId"] # config.table
       THEN lastCall.out = <<>>
       ELSE Len(lastCall.out) = 1

\* C9: a delivery emits at most one record, and exactly one when it passes the
\* event filter and the table filter, whether the row GET is skipped, answers
\* or raises.
C9_OneRecordPerPassingDelivery ==
    lastCall.op = "webhook" =>
        /\ Len(lastCall.out) <= 1
        /\ (PassesEventFilter /\ ~OtherTable) => Len(lastCall.out) = 1

\* C9 witness: a passing delivery whose row GET raised, and one record.
C9_Witness ==
    /\ lastCall.op = "webhook"
    /\ PassesEventFilter
    /\ ~OtherTable
    /\ lastCall.requests # <<>>
    /\ lastCall.input.getRaises
    /\ Len(lastCall.out) = 1

\* C10 as stated: when the row GET raises the handler still emits one record,
\* and that record has no row key.
C10_GetFailureNoRowKey ==
    (lastCall.op = "webhook" /\ lastCall.requests # <<>> /\ lastCall.input.getRaises)
    => (Len(lastCall.out) = 1 /\ lastCall.out[1]["row"] = Undefined)

\* C10 amended: when the row GET raises the handler does not fail and emits
\* one record, whose row key is the one of the effective payload: absent
\* unless the payload itself has a row key, and never a fetched row.
C10_GetFailureBaseRecord ==
    (lastCall.op = "webhook" /\ lastCall.requests # <<>> /\ lastCall.input.getRaises)
    => /\ ~lastCall.raised
       /\ Len(lastCall.out) = 1
       /\ lastCall.out[1]["row"] = DeliveredPayload["row"]
       /\ lastCall.out[1]["row"] # FetchedRow

\* C10 witness: the row GET raised for a payload without a row key and the
\* emitted record has none.
C10_Witness ==
    /\ lastCall.op = "webhook"
    /\ lastCall.requests # <<>>
    /\ lastCall.input.getRaises
    /\ DeliveredPayload["row"] = Undefined
    /\ Len(lastCall.out) = 1
    /\ lastCall.out[1]["row"] = Undefined

\* Enrichment is enabled: the resolveData switch where the node has one, always
\* where it has none.
EnrichmentEnabled == variant = "phacetId" => config.resolveData

\* The handler is to fetch the row: enrichment is enabled, the effective
\* payload names a row id and a table is configured.
RowWanted ==
    /\ EnrichmentEnabled
    /\ Truthy(DeliveredPayload["rowId"])
    /\ Truthy(config.table)

\* The row GET was issued exactly once and, when it answered, the fetched row
\* is under the row key of the one emitted record.
OneRowGet ==
    /\ lastCall.requests = <<RowGet(config.table, DeliveredPayload["rowId"])>>
    /\ ~lastCall.input.getRaises =>
          (Len(lastCall.out) = 1 /\ lastCall.out[1]["row"] = FetchedRow)

\* C11 as stated: every delivery with enrichment enabled, a row id in the
\* effective payload and a configured table issues the row GET exactly once
\* and emits the fetched row under the row key; every other delivery issues no
\* HTTP request.
C11_RowGetIffWanted ==
    lastCall.op = "webhook" =>
        IF RowWanted THEN OneRowGet ELSE lastCall.requests = <<>>

\* C11 amended: a delivery the handler does not drop issues the row GET
\* exactly once when enrichment is enabled, the effective payload names a row
\* id and a table is configured, and the fetched row is emitted under the row
\* key; a dropped delivery and every other delivery issue no HTTP request.
C11_RowGetIffWantedAndEmitted ==
    lastCall.op = "webhook" =>
        IF RowWanted /\ lastCall.out # <<>> THEN OneRowGet
        ELSE lastCall.requests = <<>>

\* C11 witness: the row GET answered and the emitted record carries the
\* fetched row in place of the payload's own row key.
C11_Witness ==
    /\ lastCall.op = "webhook"
    /\ RowWanted
    /\ DeliveredPayload["row"] = "payloadRow"
    /\ ~lastCall.input.getRaises
    /\ Len(lastCall.requests) = 1
    /\ lastCall.out[1]["row"] = FetchedRow

(***************************************************************************)
(* Properties of the file upload (checked under SpecUpload)                *)
(***************************************************************************)
\* The arguments of the observed upload and the file it names.
UploadInput == lastCall.input

UploadedFile == UploadInput.binary[UploadInput.binaryPropertyName]

\* The explicit original file name, else the binary data's file name, else
\* 'file.pdf'.
ResolvedFilename ==
    IF UploadInput.originalFilename # <<>> THEN UploadInput.originalFilename
    ELSE IF UploadedFile.fileName # <<>> THEN UploadedFile.fileName
    ELSE <<"f", "i", "l", "e", ".", "p", "d", "f">>

\* The name ends in '.pdf', in whatever case.
IsPdfName(name) ==
    /\ Len(name) >= 4
    /\ name[Len(name) - 3] = "."
    /\ name[Len(name) - 2] \in {"p", "P"}
    /\ name[Len(name) - 1] \in {"d", "D"}
    /\ name[Len(name)] \in {"f", "F"}

\* C16: an upload whose resolved file name (explicit original file name, else
\* the binary data's file name, else 'file.pdf') does not end in '.pdf',
\* whatever the case, is rejected with the unsupported-type error before any
\* bytes are read and before any request is issued; a name that does end in
\* '.pdf' is not rejected for its type.
C16_NonPdfRejectedBeforeRead ==
    (lastCall.op = "uploadFile" /\ UploadedFile.present) =>
        IF IsPdfName(ResolvedFilename)
        THEN lastCall.out.message # "Only PDF files are supported"
        ELSE /\ lastCall.raised
             /\ lastCall.out.message = "Only PDF files are supported"
             /\ lastCall.out.reads = <<>>
             /\ lastCall.requests = <<>>

\* C16 witness: the binary data is named '.PDF', the explicit original file
\* name is not a PDF name, and the upload is rejected with nothing read.
C16_Witness ==
    /\ lastCall.op = "uploadFile"
    /\ UploadedFile.present
    /\ IsPdfName(UploadedFile.fileName)
    /\ UploadedFile.buffer # <<>>
    /\ ~IsPdfName(UploadInput.originalFilename)
    /\ UploadInput.originalFilename # <<>>
    /\ lastCall.raised
    /\ lastCall.out.reads = <<>>
    /\ lastCall.requests = <<>>

\* The request of an upload that reached the files endpoint, the boundary its
\* Content-Type header names, and the bytes that were read for it.
UploadRequest == lastCall.requests[1]

HeaderBoundary == UploadRequest.body.contentType[2]

UploadPayload == UploadInput.binary[lastCall.out.reads[1]].buffer

UploadReachedEndpoint == lastCall.op = "uploadFile" /\ lastCall.requests # <<>>

\* The tokens of s from position k on, n of them (fewer at the end of s).
Slice(s, k, n) ==
    IF k > Len(s) THEN <<>>
    ELSE SubSeq(s, k, IF k + n - 1 > Len(s) THEN Len(s) ELSE k + n - 1)

\* C18: the body of the upload request is, in this order, '--' boundary CRLF,
\* the Content-Disposition line naming the field 'file' and the file name, the
\* Content-Type line and an empty line, the payload unmodified, and CRLF '--'
\* boundary '--' CRLF; the boundary is the one of the Content-Type header of
\* the request.
C18_BodyLayout ==
    UploadReachedEndpoint =>
        LET bytes == UploadRequest.body.bytes
            b == HeaderBoundary
            f == Len(ResolvedFilename)
            n == Len(UploadPayload)
        IN  /\ UploadRequest.body.contentType[1] = "multipart/form-data; boundary="
            /\ Len(UploadRequest.body.contentType) = 2
            /\ b = UploadInput.boundary
            /\ Len(bytes) = 3 + 6 + f + 2 + 4 + n + 5
            /\ Slice(bytes, 1, 3) = <<"--", b, "\r\n">>
            /\ Slice(bytes, 4, 6) =
                  <<"Content-Disposition: form-data; name=", "\"", "file", "\"",
                    "; filename=", "\"">>
            /\ Slice(bytes, 10, f) = ResolvedFilename
            /\ Slice(bytes, 10 + f, 2) = <<"\"", "\r\n">>
            /\ Slice(bytes, 12 + f, 4) =
                  <<"Content-Type: ", "application/pdf", "\r\n", "\r\n">>
            /\ Slice(bytes, 16 + f, n) = UploadPayload
            /\ Slice(bytes, 16 + f + n, 5) = <<"\r\n", "--", b, "--", "\r\n">>

\* C18 witness: a payload that itself holds a line break and dashes has been
\* sent.
C18_Witness ==
    /\ UploadReachedEndpoint
    /\ ~lastCall.raised
    /\ Len(UploadPayload) >= 2
    /\ UploadPayload[1] = "\r\n"
    /\ UploadPayload[2] = "--"

\* A receiver of multipart/form-data: pat occurs in s at position k.
OccursAt(s, pat, k) ==
    /\ k >= 1
    /\ k + Len(pat) - 1 <= Len(s)
    /\ SubSeq(s, k, k + Len(pat) - 1) = pat

\* The first position from `from` on where pat occurs in s, 0 when there is
\* none.
IndexOf(s, pat, from) ==
    LET hits == {k \in from..Len(s) : OccursAt(s, pat, k)}
    IN  IF hits = {} THEN 0 ELSE CHOOSE k \in hits : \A j \in hits : k <= j

Unparsed == [parts |-> 0, name |-> <<>>, filename |-> <<>>, contentType |-> <<>>, body |-> <<>>]

\* The Content-Disposition line: the field name and the file name are the
\* quoted strings after name= and filename=, each ending at the next quote.
ParseDisposition(line) ==
    LET q1 == IndexOf(line, <<"\"">>, 3)
        q2 == IndexOf(line, <<"\"">>, q1 + 3)
    IN  IF /\ OccursAt(line, <<"Content-Disposition: form-data; name=", "\"">>, 1)
           /\ q1 > 0
           /\ OccursAt(line, <<"; filename=", "\"">>, q1 + 1)
           /\ q2 > 0
        THEN [ok |-> TRUE, name |-> SubSeq(line, 3, q1 - 1),
              filename |-> SubSeq(line, q1 + 3, q2 - 1)]
        ELSE [ok |-> FALSE, name |-> <<>>, filename |-> <<>>]

\* The body is read with the boundary of the Content-Type header: the opening
\* delimiter line, the header lines up to the empty line, the part's bytes up
\* to the next CRLF '--' boundary, and the closing '--' CRLF.  parts is 1 when
\* exactly one part is found and nothing follows it.
ParseMultipart(boundary, bytes) ==
    LET headEnd == IndexOf(bytes, <<"\r\n", "\r\n">>, 4)
        bodyStart == headEnd + 2
        bodyEnd == IndexOf(bytes, <<"\r\n", "--", boundary>>, bodyStart)
        head == SubSeq(bytes, 4, headEnd - 1)
        lineEnd == IndexOf(head, <<"\r\n">>, 1)
        disposition == ParseDisposition(SubSeq(head, 1, lineEnd - 1))
        typeLine == SubSeq(head, lineEnd + 1, Len(head))
    IN  IF /\ OccursAt(bytes, <<"--", boundary, "\r\n">>, 1)
           /\ headEnd > 0
           /\ bodyEnd > 0
           /\ lineEnd > 0
           /\ disposition.ok
           /\ Len(typeLine) = 2
           /\ typeLine[1] = "Content-Type: "
           /\ SubSeq(bytes, bodyEnd + 3, Len(bytes)) = <<"--", "\r\n">>
        THEN [parts |-> 1, name |-> disposition.name,
              filename |-> disposition.filename,
              contentType |-> <<typeLine[2]>>,
              body |-> SubSeq(bytes, bodyStart, bodyEnd - 1)]
        ELSE Unparsed

\* The payload holds the text of the boundary.
PayloadHasBoundary == \E k \in 1..Len(UploadPayload) : UploadPayload[k] = HeaderBoundary

\* C17: for every file name and payload the upload accepts, reading the body
\* of the request with the boundary of its Content-Type header yields exactly
\* one part, with the field name 'file', the file name, the content type
\* application/pdf and the payload, byte for byte, provided the payload does
\* not hold the boundary.
C17_MultipartRoundTrip ==
    (UploadReachedEndpoint /\ ~PayloadHasBoundary) =>
        ParseMultipart(HeaderBoundary, UploadRequest.body.bytes) =
            [parts |-> 1, name |-> <<"file">>, filename |-> ResolvedFilename,
             contentType |-> <<"application/pdf">>, body |-> UploadPayload]

(***************************************************************************)
(* Properties of the action node's execute (checked under SpecExecute)     *)
(***************************************************************************)
\* The last step handled an input item; the item and the error of its try
\* block.
ItemHandled == lastCall.op = "execute"

HandledItem == lastCall.input.item

RowCreate == run.resource = "row" /\ run.operation = "create"

\* The (resource, operation) pairs the installed version handles.
Supported ==
    \/ RowCreate
    \/ run.version = "v1" /\ run.resource = "file" /\ run.operation = "upload"
    \/ run.version \in {"v2", "v4"} /\ run.resource = "row"
          /\ run.operation \in {"update", "get"}
    \/ run.version = "v4" /\ run.resource = "row"
          /\ run.operation = "getCellDownloadUrl"

\* The request goes to the files (upload) endpoint.
IsUpload(request) == request.path[Len(request.path)] = "files"

\* C12: a row create on an item with an empty sessionId raises a validation
\* error attributed to the index of that item, the session error when the
\* table is given, and no HTTP request, neither an upload nor the row POST,
\* has been issued for the item.
C12_EmptySessionNoRequest ==
    (ItemHandled /\ RowCreate /\ HandledItem.sessionId = "") =>
        /\ lastCall.error.failed
        /\ lastCall.error.errorItem = lastCall.input.index
        /\ Truthy(HandledItem.tableId) =>
              lastCall.error.message = "Session ID is required"
        /\ lastCall.requests = <<>>

\* C12 witness: the item has a file cell that could be uploaded and an empty
\* sessionId; the session error is raised and nothing was requested.
C12_Witness ==
    /\ ItemHandled
    /\ RowCreate
    /\ run.version = "v4"
    /\ HandledItem.sessionId = ""
    /\ HandledItem.tableId = "T1"
    /\ Len(HandledItem.cells) = 2
    /\ HandledItem.cells[1].type = "file"
    /\ HandledItem.cells[1].binaryProperty = "data"
    /\ lastCall.error.message = "Session ID is required"
    /\ lastCall.requests = <<>>

\* The errors for a missing required field.
RequiredFieldErrors ==
    {"Table ID is required", "Phacet ID is required", "Session ID is required",
     "Row ID is required", "Cell ID is required", "At least one cell is required",
     "Binary property is required for file cells"}

\* C13: for every operation and every input item, when an error for a missing
\* required field is raised for the item, no HTTP request has been issued for
\* that item, also when the offending cell follows file cells of the item.
C13_RequiredFieldBeforeRequests ==
    (ItemHandled /\ lastCall.error.failed
       /\ lastCall.error.message \in RequiredFieldErrors)
    => lastCall.requests = <<>>

\* C14: a row create whose cells are a text cell and a file cell that names a
\* file id sends the row POST with the text and the file id as the two values
\* and nothing to the files endpoint; an item whose file cells all name a file
\* id issues no request to the files endpoint.
C14_FileIdCellNoUpload ==
    (ItemHandled /\ RowCreate /\ Truthy(HandledItem.tableId)
       /\ Truthy(HandledItem.sessionId) /\ HandledItem.cells # <<>>
       /\ \A k \in 1..Len(HandledItem.cells) :
             \/ HandledItem.cells[k].type = "text"
             \/ HandledItem.cells[k].fileSource = "fileId")
    => /\ \A k \in 1..Len(lastCall.requests) : ~IsUpload(lastCall.requests[k])
       /\ Len(lastCall.requests) = 1
       /\ lastCall.requests[1].method = "POST"
       /\ lastCall.requests[1].body.cells =
             [k \in 1..Len(HandledItem.cells) |->
                 [columnId |-> HandledItem.cells[k].columnId,
                  value |-> IF HandledItem.cells[k].type = "text"
                            THEN ValueOrEmpty(HandledItem.cells[k].value)
                            ELSE HandledItem.cells[k].fileId]]

\* C15: with continue-on-failure an item that fails, at a validation or at the
\* remote service, yields the one record {error: message} and the run goes on
\* to the later items; every handled item of a supported operation has
\* exactly one output record; without continue-on-failure the first failure is
\* thrown to the caller, nothing is pushed for the item and no later item is
\* handled.
C15_ContinueOnFail ==
    /\ ItemHandled =>
          /\ (lastCall.error.failed /\ run.continueOnFail) =>
                /\ ~lastCall.raised
                /\ Len(lastCall.out) = 1
                /\ lastCall.out[1].json.error = lastCall.error.message
                /\ nextItem = lastCall.input.index + 1
                /\ status = IF nextItem = run.itemCount THEN "returned" ELSE "running"
          /\ (lastCall.error.failed /\ ~run.continueOnFail) =>
                /\ lastCall.raised
                /\ lastCall.out = <<>>
                /\ status = "raised"
                /\ nextItem = lastCall.input.index
          /\ (~lastCall.error.failed /\ Supported) =>
                /\ Len(lastCall.out) = 1
                /\ lastCall.out[1].json.error = Undefined
          /\ Supported => Len(returnData) = nextItem
    /\ run.continueOnFail => status # "raised"
    /\ status = "returned" => nextItem = run.itemCount
    /\ status = "raised" => (ItemHandled /\ lastCall.raised)

\* C15 witness: with continue-on-failure the first item failed at the remote
\* service after a request, the second was handled, and the run returned one
\* error record and one result.
C15_Witness ==
    /\ ItemHandled
    /\ run.continueOnFail
    /\ run.itemCount = 2
    /\ status = "returned"
    /\ Len(returnData) = 2
    /\ returnData[1].json.error = "request failed"
    /\ returnData[2].json.error = Undefined
    /\ lastCall.input.index = 1

(***************************************************************************)
(* Repeated registration                                                   *)
(***************************************************************************)
CreateReturned == lastCall'.op = "create" /\ ~lastCall'.raised

\* The endpoint the remote service registers for the POST of this step.
NewEndpoint == EndpointId(nextEndpoint)

Redelivery ==
    IF variant = "tableId"
    THEN webhook_tableId(lastCall.input.body, lastCall.input.getRaises)
    ELSE webhook_phacetId(lastCall.input.body, lastCall.input.getRaises)

RowWrite ==
    /\ run.resource = "row"
    /\ run.operation \in {"create", "update"}

\* The item got as far as its row request, the last request issued for it.
RowWritten ==
    /\ ItemHandled
    /\ RowWrite
    /\ Supported
    /\ lastCall.requests # <<>>
    /\ ~IsUpload(lastCall.requests[Len(lastCall.requests)])

WrittenRow == lastCall.requests[Len(lastCall.requests)]

\* originalFilename || binaryData.fileName of a file cell of the item.
CellFilename(cell) ==
    OrElse(cell.originalFilename, ItemBinary[cell.binaryProperty].fileName)

\* The cells of the handled item whose value in the row request is the id of
\* a file uploaded for them.
UploadedCells ==
    {k \in 1..Len(HandledItem.cells) :
        /\ HandledItem.cells[k].type = "file"
        /\ HandledItem.cells[k].fileSource = "upload"
        /\ HandledItem.cells[k].binaryProperty \in BinaryProperties
        /\ WrittenRow.body.cells[k].value = UploadedId(CellFilename(HandledItem.cells[k]))}

\* C21: the cells of the row request of a create or update are as many as
\* the input cells and the k-th carries the column id of the k-th input cell,
\* whatever mix of text and file cells; the requests before the row request
\* are the uploads of the file cells, one per uploaded cell in input order.
C21_CellsInInputOrder ==
    RowWritten =>
        /\ Len(WrittenRow.body.cells) = Len(HandledItem.cells)
        /\ \A k \in 1..Len(HandledItem.cells) :
              WrittenRow.body.cells[k].columnId = HandledItem.cells[k].columnId
        /\ Len(lastCall.requests) = Cardinality(UploadedCells) + 1
        /\ \A k \in UploadedCells :
              LET n == Cardinality({j \in UploadedCells : j <= k})
              IN  /\ IsUpload(lastCall.requests[n])
                  /\ lastCall.requests[n].body.bytes =
                        MultipartBody(ItemBoundary, CellFilename(HandledItem.cells[k]),
                                      ItemBinary["data"].buffer)

\* C21 witness: an update wrote a row of two file cells uploaded under
\* different file names.
C21_Witness ==
    /\ RowWritten
    /\ run.operation = "update"
    /\ Len(HandledItem.cells) = 2
    /\ UploadedCells = {1, 2}
    /\ HandledItem.cells[1].originalFilename = <<>>
    /\ HandledItem.cells[2].originalFilename # <<>>
    /\ ~lastCall.error.failed

(***************************************************************************)
(* What create() stores                                                    *)
(***************************************************************************)
StoredSecret ==
    IF variant = "tableId" THEN staticData["webhookSecret"] ELSE staticData["secret"]

RowWrites == {k \in 1..Len(lastCall.requests) : ~IsUpload(lastCall.requests[k])}

\* The file cells of the handled item that are to be uploaded.
FileCells ==
    {k \in 1..Len(HandledItem.cells) :
        /\ HandledItem.cells[k].type = "file"
        /\ HandledItem.cells[k].fileSource = "upload"}

\* The request the remote service failed is an upload.
UploadFailedAt ==
    /\ lastCall.input.fails \in 1..Len(lastCall.requests)
    /\ IsUpload(lastCall.requests[lastCall.input.fails])

\* C23: for a row create or update on one item, in the versions that have
\* file cells, there is at most one row write, it is the last request, every
\* file cell of the item was uploaded before it and none of these uploads
\* failed; when an upload fails no row write is issued, nothing is requested
\* after it, and the requests before it are the uploads that succeeded.
C23_RowWriteAfterUploads ==
    (ItemHandled /\ RowWrite /\ run.version # "v1") =>
        /\ Cardinality(RowWrites) <= 1
        /\ RowWrites # {} =>
              /\ RowWrites = {Len(lastCall.requests)}
              /\ lastCall.requests[Len(lastCall.requests)].method \in {"POST", "PUT"}
              /\ ~UploadFailedAt
              /\ FileCells \subseteq UploadedCells
              /\ Len(lastCall.requests) = Cardinality(FileCells) + 1
        /\ UploadFailedAt =>
              /\ RowWrites = {}
              /\ lastCall.error.failed
              /\ Len(lastCall.requests) = lastCall.input.fails
              /\ \A k \in 1..Len(lastCall.requests) :
                    /\ IsUpload(lastCall.requests[k])
                    /\ lastCall.requests[k].method = "POST"

\* C23 witness: the upload of the second file cell of a create failed after
\* the first was uploaded; no row was written.
C23_Witness ==
    /\ ItemHandled
    /\ RowCreate
    /\ run.version = "v4"
    /\ FileCells = {1, 2}
    /\ lastCall.input.fails = 2
    /\ UploadFailedAt
    /\ Len(lastCall.requests) = 2
    /\ RowWrites = {}

(***************************************************************************)
(* Order of the items                                                      *)
(***************************************************************************)
\* C24: execute handles the items in index order, one at a time: a step
\* issues the requests of the item after the one handled last and of no
\* other, starting with item 0, and appends its records to those of the
\* earlier items, so the records that name their item name increasing
\* indices; after an error thrown to the caller no further item is handled.
C24_ItemsInIndexOrder ==
    [][ lastCall'.op = "execute" =>
          /\ lastCall'.input.index = nextItem
          /\ lastCall'.input.index =
                IF lastCall.op = "execute" THEN lastCall.input.index + 1 ELSE 0
          /\ ~lastCall.raised
          /\ returnData' = returnData \o lastCall'.out
          /\ \A j \in 1..Len(returnData'), k \in 1..Len(returnData') :
                (j < k /\ returnData'[j].pairedItem # NoItem
                       /\ returnData'[k].pairedItem # NoItem)
                => returnData'[j].pairedItem < returnData'[k].pairedItem ]_vars

\* C24 witness: a run of two items returned a record for each, each item
\* with a request of its own, the records paired with items 0 and 1.
C24_Witness ==
    /\ ItemHandled
    /\ status = "returned"
    /\ lastCall.input.index = 1
    /\ lastCall.requests # <<>>
    /\ Len(returnData) = 2
    /\ returnData[1].pairedItem = 0
    /\ returnData[1].json.response # <<>>
    /\ returnData[2].pairedItem = 1

(***************************************************************************)
(* The effective payload                                                   *)
(***************************************************************************)
\* The record the last delivery emitted.
EmittedRecord == lastCall.out[1]

\* The data object of the delivered body when it has one, the body otherwise.
EffectivePayload ==
    IF DeliveredBody.hasData THEN DeliveredBody.data ELSE DeliveredBody.top

\* C25: the handler reads from the effective payload, the data object of the
\* body when there is one and the body otherwise: a delivery of the
\* configured event is dropped only when that payload names another table
\* than the configured one (and is dropped then where the version filters);
\* the only request is the row GET for the row id of that payload; the
\* emitted record has the row id of the payload, its row unless a row was
\* fetched, its table unless the configured table is written over it, and
\* its event type when it has one.
C25_ReadsEffectivePayload ==
    lastCall.op = "webhook" =>
        /\ (PassesEventFilter /\ lastCall.out = <<>>) =>
              /\ Truthy(config.table)
              /\ Truthy(EffectivePayload["tableId"])
              /\ EffectivePayload["tableId"] # config.table
        /\ ( /\ variant = "tableId"
             /\ Truthy(config.table)
             /\ Truthy(EffectivePayload["tableId"])
             /\ EffectivePayload["tableId"] # config.table ) => lastCall.out = <<>>
        /\ lastCall.requests # <<>> =>
              lastCall.requests = <<RowGet(config.table, EffectivePayload["rowId"])>>
        /\ lastCall.out # <<>> =>
              /\ EmittedRecord["rowId"] = EffectivePayload["rowId"]
              /\ EmittedRecord["row"] =
                    IF lastCall.requests # <<>> /\ ~lastCall.input.getRaises
                    THEN FetchedRow
                    ELSE EffectivePayload["row"]
              /\ EmittedRecord["tableId"] =
                    IF variant = "tableId" /\ Truthy(config.table)
                    THEN config.table
                    ELSE EffectivePayload["tableId"]
              /\ Truthy(EffectivePayload["eventType"]) =>
                    EmittedRecord["eventType"] = EffectivePayload["eventType"]

\* C25 witness: the body has a data object naming the configured table and a
\* row, and names another table and another row at its top level; the record
\* is emitted with the fetched row of the data object.
C25_Witness ==
    /\ lastCall.op = "webhook"
    /\ variant = "tableId"
    /\ DeliveredBody.hasData
    /\ DeliveredBody.top["tableId"] = "T2"
    /\ DeliveredBody.top["rowId"] = "r2"
    /\ DeliveredBody.data["tableId"] = "T1"
    /\ DeliveredBody.data["rowId"] = "r1"
    /\ config.table = "T1"
    /\ lastCall.requests = <<RowGet("T1", "r1")>>
    /\ Len(lastCall.out) = 1
    /\ EmittedRecord["row"] = FetchedRow

(***************************************************************************)
(* Shape of the local subscription                                         *)
(***************************************************************************)
ConfigStored ==
    \/ Truthy(staticData["webhookUrl"])
    \/ Truthy(staticData["eventType"])
    \/ Truthy(staticData["tableId"])

\* A stored callback URL, event type or table id comes with an endpoint id.
Complete == ConfigStored => Truthy(StoredEndpointId)

\* C26 as stated: in every state reached by create() and delete() calls with
\* arbitrary remote responses the local subscription is empty or complete:
\* when a callback URL, event type or table id is stored, so is an endpoint
\* id.
C26_EmptyOrComplete == Complete

(***************************************************************************)
(* Registered endpoints under the protocol of the host                     *)
(***************************************************************************)
\* C27: when create() is called only after checkExists() returned false,
\* delete() on deactivation, and every remote call succeeds with a fresh
\* endpoint id, every endpoint registered and not deleted is the one whose id
\* is stored: there is at most one and none is orphaned, whatever the
\* sequence of activations, configuration changes and deactivations.
C27_NoOrphanUnderProtocol ==
    /\ Cardinality(endpoints) <= 1
    /\ \A e \in endpoints : StoredEndpointId = e

(***************************************************************************)
(* Keys the handler writes itself                                          *)
(***************************************************************************)
\* C28: in every emitted record eventType and eventId are the top-level ones
\* of the delivered body, so eventType is the configured event where the
\* version filters on it, and tableId is the configured table when one is
\* configured, whatever keys the effective payload has.
C28_OwnKeysWin ==
    (lastCall.op = "webhook" /\ lastCall.out # <<>>) =>
        /\ EmittedRecord["eventType"] = DeliveredBody.top["eventType"]
        /\ EmittedRecord["eventId"] = DeliveredBody.top["eventId"]
        /\ variant = "tableId" => EmittedRecord["eventType"] = config.event
        /\ Truthy(config.table) => EmittedRecord["tableId"] = config.table

(***************************************************************************)
(* Pairing of the output records                                           *)
(***************************************************************************)
\* C29: every output record of execute, the error records pushed under
\* continue-on-failure included, is paired with the index of the input item
\* that produced it.
C29_EveryRecordPaired ==
    ItemHandled =>
        \A k \in 1..Len(lastCall.out) :
            lastCall.out[k].pairedItem = lastCall.input.index

(***************************************************************************)
(* Operations the node does not handle                                     *)
(***************************************************************************)
\* C30: when the (resource, operation) pair is not one the version handles,
\* an item issues no request, raises no error and pushes no record, and the
\* run returns no record at all, however many items it was given.
C30_UnsupportedOperationSilent ==
    ~Supported =>
        /\ returnData = <<>>
        /\ status # "raised"
        /\ ItemHandled =>
              /\ lastCall.requests = <<>>
              /\ ~lastCall.error.failed
              /\ ~lastCall.raised
              /\ lastCall.out = <<>>
              /\ nextItem = lastCall.input.index + 1
        /\ status = "returned" => nextItem = run.itemCount

\* C30 witness: a run of two items for an operation no version handles
\* returned without a record.
C30_Witness ==
    /\ ~Supported
    /\ run.operation = "delete"
    /\ run.itemCount = 2
    /\ ItemHandled
    /\ status = "returned"
    /\ nextItem = 2
    /\ returnData = <<>>

====
